---- MODULE Spec2Model ----
(***************************************************************************)
(* NFC2MMU: the tag-event synchronisation engine of nfc2klipper.py         *)
(* (set_spool_and_filament, on_nfc_tag_present, on_nfc_no_tag_present)     *)
(* and the start-up / shutdown wiring of its __main__ block.               *)
(***************************************************************************)
EXTENDS Integers, Sequences, FiniteSets, TLC

\* ------------------------------------------------------------------ bounds
\* Largest spool / filament id a tag carries in the model.
MaxId == 1
\* Longest log of publisher (moonraker) calls a behaviour records.
MaxCalls == 3
\* Longest sequence of handler calls the test harness makes.
MaxEvents == 5

\* ------------------------------------------------------------------ values
\* Python's None, kept apart from every id (ids are >= 0).
None == -1

Ids == 0..MaxId
\* What the reader hands to the callback for a record: an id or None.
TagValues == Ids \cup {None}

\* The ids of the write requests made to the web server: the handler's
\* effect does not depend on them, one id stands for all.
HttpIds == {MaxId}

\* Execution contexts: the main thread and the background reader thread.
Contexts == {"main", "thread"}

\* Python truthiness of an int-or-None: None and 0 are falsy.
Truthy(v) == v # None /\ v # 0

\* moonraker's answers to the POST: a status code, or no answer in time.
Responses ==
    {[completed |-> TRUE, status_code |-> c] : c \in {200, 404, 500}}
        \cup {[completed |-> FALSE, status_code |-> 0]}

\* Mutant: only a server error (5xx) or no answer raises.
Raises_server_errors_only(resp) == ~resp.completed \/ resp.status_code >= 500

\* MoonrakerWebClient.set_spool_and_filament raises: requests.post raised
\* (timeout, connection error) or the status is not 200.
Raises(resp) == ~resp.completed \/ resp.status_code # 200

NoFrame == [spool |-> None, filament |-> None, active |-> FALSE]
NoEvent == [op |-> "none", spool |-> None, filament |-> None]

VARIABLES
    clear_spool,          \* args["moonraker"].get("clear_spool"), truthy or not
    disable_web_server,   \* args["webserver"].get("disable_web_server")
    old_spool,            \* set_spool_and_filament.old_spool
    old_filament,         \* set_spool_and_filament.old_filament
    calls,                \* the calls made to moonraker.set_spool_and_filament
    frame,                \* per context: the set_spool_and_filament call in flight
    main_pc,              \* where the main thread is in __main__
    thread,               \* the threading.Thread running nfc_handler.run
    running,              \* nfc_handler.run() is in progress
    stop_requested,       \* nfc_handler.stop() has been called
    joined,               \* thread.join() has returned
    last_event,           \* the callback the reader delivered last
    events,               \* the handler calls a test harness made, in order
    posts,                \* the requests.post calls made, in order
    http_status           \* status of the last response of the Flask app

vars == <<clear_spool, disable_web_server, old_spool, old_filament, calls,
          frame, main_pc, thread, running, stop_requested, joined,
          last_event, events, posts, http_status>>

engine == <<old_spool, old_filament, calls, frame, posts>>
config == <<clear_spool, disable_web_server>>
wiring == <<main_pc, thread, running, stop_requested, joined>>

\* --------------------------------------------------- the moonraker client

\* Mutant: the command carries the filament id as well.
WireCommand_with_filament(spool, filament, gate) ==
    <<"MMU_GATE_MAP GATE=", gate, " SPOOLID=", spool, " FILAMENT=", filament>>

\* The f-string of line 22, kept as its pieces: the literal text and the two
\* interpolated values.
WireCommand(spool, filament, gate) ==
    <<"MMU_GATE_MAP GATE=", gate, " SPOOLID=", spool>>

\* Mutant: the client sends the request a second time.
MoonrakerWebClient_set_spool_and_filament_retry(spool, filament, gate) ==
    << [path |-> "/api/printer/command", timeout |-> 10,
        json |-> [commands |-> <<WireCommand(spool, filament, gate)>>]],
       [path |-> "/api/printer/command", timeout |-> 10,
        json |-> [commands |-> <<WireCommand(spool, filament, gate)>>]] >>

\* MoonrakerWebClient.set_spool_and_filament: the requests.post calls it
\* makes, in order.
MoonrakerWebClient_set_spool_and_filament(spool, filament, gate) ==
    << [path |-> "/api/printer/command", timeout |-> 10,
        json |-> [commands |-> <<WireCommand(spool, filament, gate)>>]] >>

\* --------------------------------------------------------------- the engine

should_clear_spool == clear_spool

\* Mutant: the dedup check compares old_filament with spool.
set_spool_and_filament_typo(ctx, spool, filament) ==
    IF old_spool = spool /\ old_filament = spool
    THEN UNCHANGED engine
    ELSE /\ old_spool' = None
         /\ old_filament' = None
         /\ calls' = Append(calls, [spool |-> spool, filament |-> filament,
                                    result |-> "pending"])
         /\ frame' = [frame EXCEPT ![ctx] =
                        [spool |-> spool, filament |-> filament, active |-> TRUE]]
         /\ posts' = posts \o MoonrakerWebClient_set_spool_and_filament(spool, filament, 0)

\* Mutant: no dedup check, every call reaches moonraker.
set_spool_and_filament_no_dedup(ctx, spool, filament) ==
    /\ old_spool' = None
    /\ old_filament' = None
    /\ calls' = Append(calls, [spool |-> spool, filament |-> filament,
                               result |-> "pending"])
    /\ frame' = [frame EXCEPT ![ctx] =
                   [spool |-> spool, filament |-> filament, active |-> TRUE]]
    /\ posts' = posts \o MoonrakerWebClient_set_spool_and_filament(spool, filament, 0)

\* Mutant: the cache is written with the new pair before the call goes out
\* instead of being reset to None.
set_spool_and_filament_optimistic(ctx, spool, filament) ==
    IF old_spool = spool /\ old_filament = filament
    THEN UNCHANGED engine
    ELSE /\ old_spool' = spool
         /\ old_filament' = filament
         /\ calls' = Append(calls, [spool |-> spool, filament |-> filament,
                                    result |-> "pending"])
         /\ frame' = [frame EXCEPT ![ctx] =
                        [spool |-> spool, filament |-> filament, active |-> TRUE]]
         /\ posts' = posts \o MoonrakerWebClient_set_spool_and_filament(spool, filament, 0)

\* Mutant: the cache is not reset before the call goes out.
set_spool_and_filament_no_invalidate(ctx, spool, filament) ==
    IF old_spool = spool /\ old_filament = filament
    THEN UNCHANGED engine
    ELSE /\ UNCHANGED <<old_spool, old_filament>>
         /\ calls' = Append(calls, [spool |-> spool, filament |-> filament,
                                    result |-> "pending"])
         /\ frame' = [frame EXCEPT ![ctx] =
                        [spool |-> spool, filament |-> filament, active |-> TRUE]]
         /\ posts' = posts \o MoonrakerWebClient_set_spool_and_filament(spool, filament, 0)

\* set_spool_and_filament up to and including the call to moonraker:
\* the dedup check, the invalidation of the cache and the POST going out.
set_spool_and_filament(ctx, spool, filament) ==
    IF old_spool = spool /\ old_filament = filament
    THEN UNCHANGED engine
    ELSE /\ old_spool' = None
         /\ old_filament' = None
         /\ calls' = Append(calls, [spool |-> spool, filament |-> filament,
                                    result |-> "pending"])
         /\ frame' = [frame EXCEPT ![ctx] =
                        [spool |-> spool, filament |-> filament, active |-> TRUE]]
         /\ posts' = posts \o MoonrakerWebClient_set_spool_and_filament(spool, filament, 0)

\* Mutant: no except clause, the exception leaves set_spool_and_filament and
\* the callback and ends the context that made the call.
moonraker_returns_propagating(ctx, resp) ==
    /\ frame[ctx].active
    /\ calls' = [calls EXCEPT ![Len(calls)].result =
                    IF Raises(resp) THEN "fail" ELSE "ok"]
    /\ IF Raises(resp)
       THEN UNCHANGED <<old_spool, old_filament>>
       ELSE /\ old_spool' = frame[ctx].spool
            /\ old_filament' = frame[ctx].filament
    /\ frame' = [frame EXCEPT ![ctx] = NoFrame]
    /\ IF Raises(resp)
       THEN /\ main_pc' = IF ctx = "main" THEN "exited" ELSE main_pc
            /\ thread' = IF ctx = "thread" THEN "failed" ELSE thread
            /\ running' = IF ctx = "main" /\ main_pc = "clearing"
                          THEN running ELSE FALSE
       ELSE /\ main_pc' = IF ctx = "main" /\ main_pc = "clearing"
                          THEN "register" ELSE main_pc
            /\ UNCHANGED <<thread, running>>
    /\ UNCHANGED <<stop_requested, joined, posts>>

\* Mutant: the except clause lacks its return, so the cache is written
\* after a failed call as well.
moonraker_returns_no_return(ctx, resp) ==
    /\ frame[ctx].active
    /\ calls' = [calls EXCEPT ![Len(calls)].result =
                    IF Raises(resp) THEN "fail" ELSE "ok"]
    /\ old_spool' = frame[ctx].spool
    /\ old_filament' = frame[ctx].filament
    /\ frame' = [frame EXCEPT ![ctx] = NoFrame]
    /\ main_pc' = IF ctx = "main" /\ main_pc = "clearing" THEN "register" ELSE main_pc
    /\ UNCHANGED <<thread, running, stop_requested, joined, posts>>

\* The rest of set_spool_and_filament: moonraker's call returns or raises.
moonraker_returns(ctx, resp) ==
    /\ frame[ctx].active
    /\ calls' = [calls EXCEPT ![Len(calls)].result =
                    IF Raises(resp) THEN "fail" ELSE "ok"]
    /\ IF Raises(resp)
       THEN UNCHANGED <<old_spool, old_filament>>
       ELSE /\ old_spool' = frame[ctx].spool
            /\ old_filament' = frame[ctx].filament
    /\ frame' = [frame EXCEPT ![ctx] = NoFrame]
    /\ main_pc' = IF ctx = "main" /\ main_pc = "clearing" THEN "register" ELSE main_pc
    /\ UNCHANGED <<thread, running, stop_requested, joined, posts>>

\* Mutant: one record is enough ("or" for "and" in the presence test).
on_nfc_tag_present_either(ctx, spool, filament) ==
    IF should_clear_spool \/ (Truthy(spool) \/ Truthy(filament))
    THEN set_spool_and_filament(ctx,
            IF ~Truthy(spool) THEN 0 ELSE spool,
            IF ~Truthy(filament) THEN 0 ELSE filament)
    ELSE UNCHANGED engine

on_nfc_tag_present(ctx, spool, filament) ==
    IF should_clear_spool \/ (Truthy(spool) /\ Truthy(filament))
    THEN set_spool_and_filament(ctx,
            IF ~Truthy(spool) THEN 0 ELSE spool,
            IF ~Truthy(filament) THEN 0 ELSE filament)
    ELSE UNCHANGED engine

\* Mutant: the clear on removal ignores the configuration.
on_nfc_no_tag_present_always(ctx) ==
    set_spool_and_filament(ctx, 0, 0)

on_nfc_no_tag_present(ctx) ==
    IF should_clear_spool
    THEN set_spool_and_filament(ctx, 0, 0)
    ELSE UNCHANGED engine

\* Mutant: the write action also pushes the pair to klipper ("force sync").
write_tag_force_sync(spool, filament, written) ==
    /\ http_status' = IF written THEN 200 ELSE 502
    /\ set_spool_and_filament("main", spool, filament)

\* write_tag, GET /w/<spool>/<filament>: "OK" when nfc_handler.write_to_tag
\* returns true, else 502.
write_tag(spool, filament, written) ==
    /\ http_status' = IF written THEN 200 ELSE 502
    /\ UNCHANGED engine

\* index, GET /: the page when spoolman.get_spools() returns, Flask's 500
\* when it raises.
index(listed) ==
    /\ http_status' = IF listed THEN 200 ELSE 500
    /\ UNCHANGED engine

\* ------------------------------------------------------------ the wiring

\* The context nfc_handler.run() executes on.
RunCtx == IF disable_web_server THEN "main" ELSE "thread"

CtxAlive(ctx) ==
    IF ctx = "thread" THEN thread = "alive" ELSE main_pc # "exited"

Init ==
    /\ clear_spool \in BOOLEAN
    /\ disable_web_server \in BOOLEAN
    /\ old_spool = None
    /\ old_filament = None
    /\ calls = <<>>
    /\ frame = [c \in Contexts |-> NoFrame]
    /\ main_pc = "start"
    /\ thread = "unstarted"
    /\ running = FALSE
    /\ stop_requested = FALSE
    /\ joined = FALSE
    /\ last_event = NoEvent
    /\ events = <<>>
    /\ posts = <<>>
    /\ http_status = None

\* Mutant: the start-up clear ignores the configuration.
MainStartupClear_always ==
    /\ main_pc = "start"
    /\ set_spool_and_filament("main", 0, 0)
    /\ main_pc' = IF frame'["main"].active THEN "clearing" ELSE "register"
    /\ UNCHANGED <<config, thread, running, stop_requested, joined,
                   last_event, events, http_status>>

\* Mutant: the reader thread is started before the start-up clear is made.
MainStartupClear_thread_first ==
    /\ main_pc = "start"
    /\ thread' = IF disable_web_server THEN thread ELSE "alive"
    /\ running' = ~disable_web_server
    /\ IF should_clear_spool
       THEN /\ set_spool_and_filament("main", 0, 0)
            /\ main_pc' = IF frame'["main"].active THEN "clearing" ELSE "register"
       ELSE /\ UNCHANGED engine
            /\ main_pc' = "register"
    /\ UNCHANGED <<config, stop_requested, joined, last_event, events,
                   http_status>>

\* __main__, lines 145-146: the start-up clear.
MainStartupClear ==
    /\ main_pc = "start"
    /\ IF should_clear_spool
       THEN /\ set_spool_and_filament("main", 0, 0)
            /\ main_pc' = IF frame'["main"].active THEN "clearing" ELSE "register"
       ELSE /\ UNCHANGED engine
            /\ main_pc' = "register"
    /\ UNCHANGED <<config, thread, running, stop_requested, joined,
                   last_event, events, http_status>>

\* __main__, lines 148-167: register the callbacks, then run the reader on a
\* daemon thread beside the web server, or in the foreground.
MainStartReader ==
    /\ main_pc = "register"
    /\ running' = TRUE
    /\ IF disable_web_server
       THEN main_pc' = "fg_run" /\ UNCHANGED thread
       ELSE main_pc' = "web" /\ thread' = "alive"
    /\ UNCHANGED <<config, engine, stop_requested, joined, last_event, events, http_status>>

MoonrakerReturns(ctx, resp) ==
    /\ CtxAlive(ctx)
    /\ moonraker_returns(ctx, resp)
    /\ UNCHANGED <<config, last_event, events, http_status>>

\* nfc_handler.run() sees a tag and calls the registered callback.
ReaderTagPresent(spool, filament) ==
    /\ running /\ CtxAlive(RunCtx)
    /\ ~frame[RunCtx].active
    /\ Len(calls) < MaxCalls
    /\ on_nfc_tag_present(RunCtx, spool, filament)
    /\ last_event' = [op |-> "present", spool |-> spool, filament |-> filament]
    /\ UNCHANGED <<config, wiring, events, http_status>>

\* nfc_handler.run() sees no tag and calls the registered callback.
ReaderNoTag ==
    /\ running /\ CtxAlive(RunCtx)
    /\ ~frame[RunCtx].active
    /\ Len(calls) < MaxCalls
    /\ on_nfc_no_tag_present(RunCtx)
    /\ last_event' = [op |-> "absent", spool |-> None, filament |-> None]
    /\ UNCHANGED <<config, wiring, events, http_status>>

\* nfc_handler.run() returns because stop() was called. On the thread that
\* ends the thread; in the foreground it ends the program.
ReaderRunReturns ==
    /\ running /\ CtxAlive(RunCtx)
    /\ ~frame[RunCtx].active
    /\ stop_requested
    /\ running' = FALSE
    /\ IF disable_web_server
       THEN main_pc' = "exited" /\ UNCHANGED thread
       ELSE thread' = "finished" /\ UNCHANGED main_pc
    /\ UNCHANGED <<config, engine, stop_requested, joined, last_event, events, http_status>>

\* nfc_handler.run() ends on a reader failure it does not retry: the
\* exception ends the thread, or in the foreground the program.
ReaderRunFails ==
    /\ running /\ CtxAlive(RunCtx)
    /\ ~frame[RunCtx].active
    /\ running' = FALSE
    /\ IF disable_web_server
       THEN main_pc' = "exited" /\ UNCHANGED thread
       ELSE thread' = "failed" /\ UNCHANGED main_pc
    /\ UNCHANGED <<config, engine, stop_requested, joined, last_event, events, http_status>>

\* app.run() raises: control enters the except block, line 162.
WebServerRaises ==
    /\ main_pc = "web"
    /\ main_pc' = "stopping"
    /\ UNCHANGED <<config, engine, thread, running, stop_requested, joined,
                   last_event, events, http_status>>

\* line 163: nfc_handler.stop()
MainStop ==
    /\ main_pc = "stopping"
    /\ stop_requested' = TRUE
    /\ main_pc' = "joining"
    /\ UNCHANGED <<config, engine, thread, running, joined, last_event, events, http_status>>

\* lines 164-165: thread.join() returns once the thread has ended; re-raise.
MainJoin ==
    /\ main_pc = "joining"
    /\ thread \in {"finished", "failed"}
    /\ joined' = TRUE
    /\ main_pc' = "exited"
    /\ UNCHANGED <<config, engine, thread, running, stop_requested,
                   last_event, events, http_status>>

\* app.run() returns normally: the try block has no else/finally, the script
\* ends and the interpreter exits, halting the daemon thread where it is.
WebServerReturns ==
    /\ main_pc = "web"
    /\ main_pc' = "exited"
    /\ thread' = IF thread = "alive" THEN "killed" ELSE thread
    /\ running' = FALSE
    /\ UNCHANGED <<config, engine, stop_requested, joined, last_event, events, http_status>>

\* app.run() serves GET /w/<spool>/<filament> while the reader runs.
HttpWriteTag(spool, filament, written) ==
    /\ main_pc = "web"
    /\ write_tag(spool, filament, written)
    /\ UNCHANGED <<config, wiring, last_event, events>>

\* app.run() serves GET / while the reader runs.
HttpIndex(listed) ==
    /\ main_pc = "web"
    /\ index(listed)
    /\ UNCHANGED <<config, wiring, last_event, events>>

Next ==
    \/ MainStartupClear
    \/ MainStartReader
    \/ \E ctx \in Contexts, resp \in Responses : MoonrakerReturns(ctx, resp)
    \/ \E spool \in TagValues, filament \in TagValues :
            ReaderTagPresent(spool, filament)
    \/ ReaderNoTag
    \/ ReaderRunReturns
    \/ ReaderRunFails
    \/ WebServerRaises
    \/ MainStop
    \/ MainJoin
    \/ WebServerReturns

Spec == Init /\ [][Next]_vars

\* The program with the web server enabled and its two routes being served
\* while the reader runs.
InitHttp == Init /\ ~disable_web_server

NextHttp ==
    \/ Next
    \/ \E spool \in HttpIds, filament \in HttpIds, written \in BOOLEAN :
            HttpWriteTag(spool, filament, written)
    \/ \E listed \in BOOLEAN : HttpIndex(listed)

SpecHttp == InitHttp /\ [][NextHttp]_vars

\* SpecHttp with the fairness the program's scheduling gives: the main
\* thread's own statements, the reader's callbacks and the return of a POST
\* are taken when they stay enabled. The web server ending (raising or
\* returning) and its requests are events from outside, with no fairness.
SpecHttpFair ==
    /\ SpecHttp
    /\ WF_vars(MainStartupClear)
    /\ WF_vars(MainStartReader)
    /\ WF_vars(MainStop)
    /\ WF_vars(MainJoin)
    /\ WF_vars(\E ctx \in Contexts, resp \in Responses :
                    MoonrakerReturns(ctx, resp))

\* ------------------------------------------- one tag presented for ever
\* The program while it keeps running (no shutdown, no reader failure) and
\* the reader keeps reporting one and the same usable tag. The reader loop
\* keeps polling and every POST ends (timeout=10, line 27), so the program's
\* own steps, the callbacks and the return of a call are weakly fair; the
\* web server's requests are not.

ReaderSameTag(spool, filament) ==
    /\ last_event.op = "none"
          \/ last_event = [op |-> "present", spool |-> spool,
                           filament |-> filament]
    /\ ReaderTagPresent(spool, filament)

NextConverge ==
    \/ MainStartupClear
    \/ MainStartReader
    \/ \E ctx \in Contexts, resp \in Responses : MoonrakerReturns(ctx, resp)
    \/ \E spool \in 1..MaxId, filament \in 1..MaxId :
            ReaderSameTag(spool, filament)
    \/ \E spool \in HttpIds, filament \in HttpIds, written \in BOOLEAN :
            HttpWriteTag(spool, filament, written)
    \/ \E listed \in BOOLEAN : HttpIndex(listed)

SpecConverge ==
    /\ Init
    /\ [][NextConverge]_vars
    /\ WF_vars(MainStartupClear)
    /\ WF_vars(MainStartReader)
    /\ WF_vars(\E ctx \in Contexts, resp \in Responses :
                    MoonrakerReturns(ctx, resp))
    /\ WF_vars(\E spool \in 1..MaxId, filament \in 1..MaxId :
                    ReaderSameTag(spool, filament))

\* ------------------------------------------------------- the test harness
\* The module imported by a test: __main__ does not run, the test calls the
\* handlers itself on its own thread and may rewrite args["moonraker"]
\* between calls. One tag is used throughout a run.

HarnessInit ==
    /\ clear_spool \in BOOLEAN
    /\ disable_web_server = TRUE
    /\ old_spool = None
    /\ old_filament = None
    /\ calls = <<>>
    /\ frame = [c \in Contexts |-> NoFrame]
    /\ main_pc = "harness"
    /\ thread = "unstarted"
    /\ running = FALSE
    /\ stop_requested = FALSE
    /\ joined = FALSE
    /\ last_event = NoEvent
    /\ events = <<>>
    /\ posts = <<>>
    /\ http_status = None

HarnessReady ==
    /\ main_pc = "harness"
    /\ ~frame["main"].active
    /\ Len(events) < MaxEvents
    /\ Len(calls) < MaxCalls

HarnessConfigure(b) ==
    /\ HarnessReady
    /\ clear_spool # b
    /\ clear_spool' = b
    /\ UNCHANGED <<disable_web_server, engine, wiring, last_event, events, http_status>>

HarnessTagPresent(spool, filament) ==
    /\ HarnessReady
    /\ \A i \in 1..Len(events) :
            events[i].op = "present" =>
                events[i].spool = spool /\ events[i].filament = filament
    /\ on_nfc_tag_present("main", spool, filament)
    /\ events' = Append(events, [op |-> "present", spool |-> spool,
                                 filament |-> filament, clear |-> clear_spool])
    /\ UNCHANGED <<config, wiring, last_event, http_status>>

HarnessTagAbsent ==
    /\ HarnessReady
    /\ on_nfc_no_tag_present("main")
    /\ events' = Append(events, [op |-> "absent", spool |-> None,
                                 filament |-> None, clear |-> clear_spool])
    /\ UNCHANGED <<config, wiring, last_event, http_status>>

NextHarness ==
    \/ \E b \in BOOLEAN : HarnessConfigure(b)
    \/ \E spool \in 1..MaxId, filament \in 1..MaxId :
            HarnessTagPresent(spool, filament)
    \/ HarnessTagAbsent
    \/ \E resp \in Responses : MoonrakerReturns("main", resp)

SpecHarness == HarnessInit /\ [][NextHarness]_vars

\* ------------------------------------------------------------ properties

Last(q) == q[Len(q)]
SamePair(a, b) == a.spool = b.spool /\ a.filament = b.filament
Call(spool, filament, result) ==
    [spool |-> spool, filament |-> filament, result |-> result]
Idle == \A c \in Contexts : ~frame[c].active
Unset == old_spool = None /\ old_filament = None
\* What a call of set_spool_and_filament(spool, filament) is seen to do from
\* outside: nothing when the cache holds the pair, else one call goes out.
SyncObserved(spool, filament) ==
    IF old_spool = spool /\ old_filament = filament
    THEN calls' = calls /\ old_spool' = old_spool /\ old_filament' = old_filament
    ELSE calls' = Append(calls, Call(spool, filament, "pending"))
NothingObserved ==
    calls' = calls /\ old_spool' = old_spool /\ old_filament' = old_filament

\* C1: two consecutive calls to the publisher carry the same (spool,
\* filament) only when the earlier of the two failed.
C1_NoRepeatedPublish ==
    \A i \in 1..(Len(calls) - 1) :
        SamePair(calls[i], calls[i + 1]) => calls[i].result = "fail"

\* C1 witness: the start-up clear of (0,0) succeeded, the reader then
\* reported no tag (a second sync of (0,0)), and one call was made in all.
C1_Witness ==
    /\ clear_spool
    /\ last_event.op = "absent"
    /\ calls = <<Call(0, 0, "ok")>>

\* C2: when the last publisher call, for (s,f), failed, a following
\* set_spool_and_filament(s,f) is not skipped: it makes a second call (s,f).
C2_RetryAfterFailure ==
    [][\A ctx \in Contexts, s \in Ids, f \in Ids :
          ( /\ calls # <<>>
            /\ Idle
            /\ Last(calls) = Call(s, f, "fail")
            /\ set_spool_and_filament(ctx, s, f) )
          => calls' = Append(calls, Call(s, f, "pending"))]_vars

\* C2 witness: a failed call followed by a second call with the same pair.
C2_Witness ==
    \E i \in 1..(Len(calls) - 1) :
        /\ calls[i].result = "fail"
        /\ SamePair(calls[i], calls[i + 1])
        /\ calls[i].spool # 0

\* C3: when the publisher call fails, set_spool_and_filament returns to its
\* caller: the cache is unset, the call is over, and the context that made
\* it goes on running (no thread ends, the reader loop keeps running).
C3_FailureNonFatal ==
    [][\A ctx \in Contexts, resp \in Responses :
          (Raises(resp) /\ MoonrakerReturns(ctx, resp))
          => /\ old_spool' = None /\ old_filament' = None
             /\ ~frame'[ctx].active
             /\ thread' = thread
             /\ running' = running
             /\ main_pc' # "exited"]_vars

\* C3 witness: a call failed, and a later event was processed and published.
C3_Witness ==
    /\ Len(calls) >= 2
    /\ calls[Len(calls) - 1].result = "fail"
    /\ Last(calls).result = "ok"
    /\ last_event.op = "present"
    /\ running

\* C4: with clear_spool false a no-tag callback makes no publisher call and
\* leaves the cache alone; with clear_spool true it syncs (0,0): a call
\* (0,0) goes out exactly when the cache is not already (0,0).
C4_ClearOnAbsentToggle ==
    [][ReaderNoTag =>
          IF clear_spool THEN SyncObserved(0, 0) ELSE NothingObserved]_vars

\* C4 witness: clear_spool false, a pair has been pushed, the reader then
\* reported no tag and the cache still holds the pair.
C4_Witness ==
    /\ ~clear_spool
    /\ last_event.op = "absent"
    /\ old_spool = 1 /\ old_filament = 1
    /\ calls = <<Call(1, 1, "ok")>>

\* C5: a tag-present callback with spool or filament (or both) absent makes
\* no call and leaves the cache alone when clear_spool is false, and syncs
\* the pair with each absent field replaced by 0 when clear_spool is true.
C5_PartialRecordPolicy ==
    [][\A s \in TagValues, f \in TagValues :
          ((s = None \/ f = None) /\ ReaderTagPresent(s, f))
          => IF clear_spool
             THEN SyncObserved(IF s = None THEN 0 ELSE s,
                               IF f = None THEN 0 ELSE f)
             ELSE NothingObserved]_vars

\* C5 witness: clear_spool true, the tag carried spool 1 and no filament,
\* and (1,0) was published.
C5_Witness ==
    /\ clear_spool
    /\ last_event = [op |-> "present", spool |-> 1, filament |-> None]
    /\ calls # <<>>
    /\ SamePair(Last(calls), Call(1, 0, "ok"))

\* C6: until nfc_handler.run() begins no callback has run; when it is about
\* to begin the publisher has been called exactly once, with (0,0), if
\* clear_spool is true and not at all if it is false.
C6_StartupClear ==
    /\ main_pc \in {"start", "clearing", "register"}
          => ~running /\ thread = "unstarted" /\ last_event = NoEvent
    /\ main_pc = "start" => calls = <<>>
    /\ main_pc = "clearing" => clear_spool /\ calls = <<Call(0, 0, "pending")>>
    /\ main_pc = "register" =>
          IF clear_spool
          THEN calls \in {<<Call(0, 0, "ok")>>, <<Call(0, 0, "fail")>>}
          ELSE calls = <<>>

\* C6 witness: clear_spool true, the clear (0,0) has been made and the
\* reader is about to be started.
C6_Witness ==
    /\ clear_spool
    /\ main_pc = "register"
    /\ calls = <<Call(0, 0, "ok")>>
    /\ old_spool = 0 /\ old_filament = 0

\* C7: once a publisher call has returned, the cache holds the pair of that
\* call if it succeeded and is unset if it failed, also when the failed
\* pair had been pushed successfully before.
C7_StateAfterSync ==
    (Idle /\ calls # <<>>) =>
        /\ Last(calls).result = "ok" =>
              old_spool = Last(calls).spool /\ old_filament = Last(calls).filament
        /\ Last(calls).result = "fail" => Unset

\* C7 witness: (s,f) was pushed successfully, later a push of (s,f) failed,
\* and the cache is unset.
C7_Witness ==
    /\ Idle
    /\ Len(calls) >= 2
    /\ Last(calls).result = "fail"
    /\ \E i \in 1..(Len(calls) - 1) :
          calls[i].result = "ok" /\ SamePair(calls[i], Last(calls))
    /\ Unset

\* C8: with clear_spool false, a tag-present callback carrying two ids
\* (0 included) syncs exactly that pair.
C8_PresentZeroDelegates ==
    [][\A s \in Ids, f \in Ids :
          (~clear_spool /\ ReaderTagPresent(s, f)) => SyncObserved(s, f)]_vars

\* The scenario of C9 for the tag (s,f): present, present, absent with
\* clear_spool false, absent with clear_spool true, present.
IsScenarioEvent(e, k, s, f) ==
    IF k \in {1, 2, 5}
    THEN e.op = "present" /\ e.spool = s /\ e.filament = f
    ELSE e.op = "absent" /\ e.clear = (k = 4)
ScenarioPrefix(s, f) ==
    /\ Len(events) <= 5
    /\ \A k \in 1..Len(events) : IsScenarioEvent(events[k], k, s, f)
ScenarioCalls(s, f, n) ==
    IF n = 0 THEN <<>>
    ELSE IF n <= 3 THEN <<Call(s, f, "ok")>>
    ELSE IF n = 4 THEN <<Call(s, f, "ok"), Call(0, 0, "ok")>>
    ELSE <<Call(s, f, "ok"), Call(0, 0, "ok"), Call(s, f, "ok")>>
NoneFailed == \A i \in 1..Len(calls) : calls[i].result = "ok"

\* C9: from an unset cache and with every publisher call succeeding, after
\* each step of the scenario the log of publisher calls is the expected
\* one: [(s,f)] after steps 1 to 3, [(s,f),(0,0)] after step 4 and
\* [(s,f),(0,0),(s,f)] after step 5.
C9_Scenario ==
    \A s \in 1..MaxId, f \in 1..MaxId :
        (Idle /\ ScenarioPrefix(s, f) /\ NoneFailed)
            => calls = ScenarioCalls(s, f, Len(events))

\* C9 witness: the five steps were made and three calls succeeded.
C9_Witness ==
    /\ Idle
    /\ Len(events) = 5
    /\ ScenarioPrefix(MaxId, MaxId)
    /\ NoneFailed
    /\ Len(calls) = 3

\* C10: when the program has exited after running the reader on the
\* background thread, stop() was called and the thread was joined: the
\* thread ended by itself and was not halted under a callback.
C10_ShutdownStopsAndJoins ==
    (main_pc = "exited" /\ ~disable_web_server)
        => stop_requested /\ joined /\ thread # "killed"

\* A route of the web server is served in this step.
HttpStep ==
    \/ \E spool \in HttpIds, filament \in HttpIds, written \in BOOLEAN :
            HttpWriteTag(spool, filament, written)
    \/ \E listed \in BOOLEAN : HttpIndex(listed)

\* C11: serving GET /w/<spool>/<filament> or GET /, with either outcome and
\* at any point of the reader's callbacks, makes no publisher call (none
\* logged, no POST sent) and leaves the cache as it was.
C11_HttpBypassesEngine ==
    [][HttpStep => /\ calls' = calls
                   /\ posts' = posts
                   /\ old_spool' = old_spool
                   /\ old_filament' = old_filament
                   /\ frame' = frame]_vars

\* C11 witness: a write request was answered 502 while a publisher call made
\* by a reader callback is in flight, after an earlier push had succeeded.
C11_Witness ==
    /\ http_status = 502
    /\ frame["thread"].active
    /\ Len(calls) = 2
    /\ calls[1].result = "ok"
    /\ calls[2].result = "pending"

\* The gate and the spool id interpolated into a sent command.
GateOf(cmd) == cmd[2]
SpoolIdOf(cmd) == cmd[4]

\* C12: every publisher call sends exactly one POST (as many POSTs as
\* calls, none added when the call returns), its one command names gate 0,
\* and the call is reported as succeeded exactly when the response arrived
\* with status 200, as failed in every other case.
C12_PublisherContract ==
    /\ [](/\ Len(posts) = Len(calls)
          /\ \A i \in 1..Len(posts) :
                /\ Len(posts[i].json.commands) = 1
                /\ GateOf(posts[i].json.commands[1]) = 0
                /\ SpoolIdOf(posts[i].json.commands[1]) = calls[i].spool)
    /\ [][\A ctx \in Contexts, resp \in Responses :
            MoonrakerReturns(ctx, resp)
            => /\ posts' = posts
               /\ Last(calls').result \in {"ok", "fail"}
               /\ Last(calls').result = "ok"
                    <=> (resp.completed /\ resp.status_code = 200)]_vars

\* C12 witness: two calls were made and two POSTs sent, the first call
\* failed and the second succeeded.
C12_Witness ==
    /\ Len(calls) = 2 /\ Len(posts) = 2
    /\ calls[1].result = "fail"
    /\ calls[2].result = "ok"
    /\ Idle

\* The value on_nfc_tag_present passes on for a record value.
Effective(v) == IF Truthy(v) THEN v ELSE 0
\* This step is a call of set_spool_and_filament(s, f) by one of its callers.
SyncCalled(s, f) ==
    \/ \E sp \in TagValues, fi \in TagValues :
          /\ ReaderTagPresent(sp, fi)
          /\ clear_spool \/ (Truthy(sp) /\ Truthy(fi))
          /\ Effective(sp) = s /\ Effective(fi) = f
    \/ ReaderNoTag /\ clear_spool /\ s = 0 /\ f = 0
    \/ MainStartupClear /\ clear_spool /\ s = 0 /\ f = 0

\* C13: a call of set_spool_and_filament(s,f) made while the cache holds
\* (s,f) sends nothing to the publisher and leaves the cache, the call log
\* and the calls in flight exactly as they were.
C13_DedupHitIsNoOp ==
    [][\A s \in Ids, f \in Ids :
          (old_spool = s /\ old_filament = f /\ SyncCalled(s, f))
          => /\ calls' = calls
             /\ posts' = posts
             /\ old_spool' = s /\ old_filament' = f
             /\ frame' = frame]_vars

\* C13 witness: the start-up clear set the cache to (0,0); a tag without
\* records was then read with clear_spool true, a sync of (0,0), and the
\* call log still holds the one call.
C13_Witness ==
    /\ clear_spool
    /\ last_event = [op |-> "present", spool |-> None, filament |-> None]
    /\ old_spool = 0 /\ old_filament = 0
    /\ calls = <<Call(0, 0, "ok")>>
    /\ Len(posts) = 1

InFlight == \E c \in Contexts : frame[c].active

\* C14: while a publisher call is in flight (from the moment it is made
\* until it returns) old_spool and old_filament are both None, whatever the
\* cache held before; the cache holds a pair only when no call is in flight
\* and the last call returned successfully.
C14_PessimisticInvalidation ==
    /\ InFlight => Unset /\ calls # <<>> /\ Last(calls).result = "pending"
    /\ (calls # <<>> /\ Last(calls).result = "pending") => Unset
    /\ ~Unset => ~InFlight /\ calls # <<>> /\ Last(calls).result = "ok"

\* C14 witness: a call is in flight with the cache unset, right after a
\* call that succeeded (so the cache held a pair when this call was made).
C14_Witness ==
    /\ InFlight
    /\ Unset
    /\ Len(calls) >= 2
    /\ calls[Len(calls) - 1].result = "ok"
    /\ Last(calls).result = "pending"

Pending == {i \in 1..Len(calls) : calls[i].result = "pending"}

\* C15: set_spool_and_filament is never in progress on two contexts: at
\* most one publisher call is pending; the main thread is inside it only
\* during the start-up clear, with the reader thread not yet started; every
\* later call is made by the reader thread while it is not already inside
\* one; no route of the web server makes one; and old_spool and
\* old_filament are set or unset together.
C15_SingleCaller ==
    /\ [](/\ ~(frame["main"].active /\ frame["thread"].active)
          /\ Cardinality(Pending) <= 1
          /\ frame["main"].active =>
                main_pc = "clearing" /\ thread = "unstarted"
          /\ frame["thread"].active =>
                main_pc \notin {"start", "clearing", "register"}
          /\ (old_spool = None) <=> (old_filament = None))
    /\ [][Len(calls') > Len(calls) =>
            /\ ~InFlight
            /\ ~HttpStep
            /\ \/ main_pc = "start" /\ thread = "unstarted"
                    /\ frame'["main"].active
               \/ thread = "alive" /\ frame'["thread"].active]_vars

\* C15 witness: the start-up clear has returned, a call made by a reader
\* callback is in flight, and the web server has served a request meanwhile.
C15_Witness ==
    /\ clear_spool
    /\ Len(calls) = 2
    /\ calls[1].result = "ok"
    /\ frame["thread"].active /\ ~frame["main"].active
    /\ http_status = 200
    /\ main_pc = "web"

\* The tag being presented has been pushed successfully and is cached.
Converged ==
    \E s \in 1..MaxId, f \in 1..MaxId :
        /\ last_event = [op |-> "present", spool |-> s, filament |-> f]
        /\ old_spool = s /\ old_filament = f
        /\ Idle
        /\ calls # <<>> /\ Last(calls) = Call(s, f, "ok")
\* The MaxCalls calls of the model are used up and the last one failed.
Exhausted ==
    Len(calls) = MaxCalls /\ Idle /\ Last(calls).result = "fail"

\* C16: while one usable tag (s,f) keeps being presented, the engine ends
\* up, and stays, with (s,f) pushed successfully and cached, unless every
\* one of the MaxCalls calls of the model has been spent and the last
\* failed; once (s,f) is cached no further publisher call is made; and the
\* cache never holds a pair whose last push did not succeed, so failures
\* never leave (s,f) deduplicated without having been pushed.
C16_EventualConvergence ==
    /\ <>[](Converged \/ Exhausted)
    /\ [][Converged => Converged' /\ calls' = calls /\ posts' = posts]_vars
    /\ [](~Unset => /\ calls # <<>>
                    /\ Last(calls) = Call(old_spool, old_filament, "ok"))

\* C16 witness: a push of the presented tag failed, the next presentation
\* retried it and succeeded, and the tag is now cached.
C16_Witness ==
    /\ Converged
    /\ Len(calls) >= 2
    /\ calls[Len(calls) - 1].result = "fail"
    /\ SamePair(calls[Len(calls) - 1], Last(calls))

\* C17: whenever the reader thread has ended on a reader failure while the
\* web server is serving, the web server is stopped: the program leaves
\* app.run().
C17_ReaderFailureStopsHttp ==
    (thread = "failed" /\ main_pc = "web") ~> (main_pc # "web")

\* C18: old_spool is None exactly when old_filament is None, and whenever
\* the cache holds a pair, the most recent publisher call was for that pair
\* and it succeeded.
C18_CacheTruthful ==
    /\ (old_spool = None) <=> (old_filament = None)
    /\ ~Unset =>
          /\ calls # <<>>
          /\ Last(calls).spool = old_spool
          /\ Last(calls).filament = old_filament
          /\ Last(calls).result = "ok"

\* C18 witness: after an earlier failed call, the cache holds (1,0), the
\* pair of the last call, which succeeded.
C18_Witness ==
    /\ old_spool = 1 /\ old_filament = 0
    /\ Len(calls) >= 2
    /\ calls[Len(calls) - 1].result = "fail"
    /\ Last(calls) = Call(1, 0, "ok")

\* C19: the request of a publisher call is fixed by gate 0 and the spool
\* id: its one command is MMU_GATE_MAP GATE=0 SPOOLID=<spool> and two calls
\* with the same spool id send equal requests whatever their filament ids;
\* yet a sync that differs from the cached pair in the filament id alone is
\* not deduplicated: it makes a call and sends that same request again.
C19_WireIgnoresFilament ==
    /\ [](/\ Len(posts) = Len(calls)
          /\ \A i \in 1..Len(posts) :
                posts[i].json.commands =
                    << <<"MMU_GATE_MAP GATE=", 0, " SPOOLID=", calls[i].spool>> >>
          /\ \A i \in 1..Len(posts), j \in 1..Len(posts) :
                calls[i].spool = calls[j].spool => posts[i] = posts[j])
    /\ [][\A s \in Ids, f \in Ids :
            (old_spool = s /\ old_filament # None /\ old_filament # f
                /\ SyncCalled(s, f))
            => /\ calls' = Append(calls, Call(s, f, "pending"))
               /\ Len(posts') = Len(posts) + 1
               /\ Last(posts') = posts[Len(posts)]]_vars

\* C19 witness: a call succeeded, the next call has the same spool id and
\* another filament id, and the two requests sent are equal.
C19_Witness ==
    \E i \in 1..(Len(calls) - 1) :
        /\ calls[i].result = "ok"
        /\ calls[i].spool = calls[i + 1].spool
        /\ calls[i].filament # calls[i + 1].filament
        /\ Len(posts) = Len(calls)
        /\ posts[i] = posts[i + 1]

====
